---- MODULE Spec2Model ----
(***************************************************************************)
(* Topic-membership index of roadrunner: a binary search tree keyed by     *)
(* topic, each node holding the set of connection uuids of its topic.      *)
(* The heap is modelled explicitly: nodes and uuid maps are cells named by *)
(* small integers, so that pointer identity (parent.left == curr) and map  *)
(* aliasing (curr.uuids = curr.left.uuids) are what they are in Go.        *)
(***************************************************************************)
EXTENDS Integers, Sequences, FiniteSets, TLC

\* ---- bounds of the model ------------------------------------------------
MaxNodes == 4
NumTopics == 3
NumUuids == 2

\* Go strings are byte sequences; the inputs are drawn from these.
\* "" , "a", "b", "aa", "c", "ba"
AllStrings == << <<>>, <<1>>, <<2>>, <<1, 1>>, <<3>>, <<2, 1>> >>
Topics == {AllStrings[i] : i \in 1..NumTopics}
Uuids == {AllStrings[i] : i \in 1..NumUuids}

\* ---- the heap -------------------------------------------------------------
NIL == 0
Root == 1
Nodes == 1..MaxNodes
MapIds == 1..MaxNodes

VARIABLES topic, uuids, left, right, maps, fault, op, pre, abs

vars == <<topic, uuids, left, right, maps, fault, op, pre, abs>>

\* The heap as one value: the fields of every BST cell, the contents of every
\* uuid map, and whether a panic has unwound the program.
H == [topic |-> topic, uuids |-> uuids, left |-> left, right |-> right,
      maps |-> maps, fault |-> fault]

\* Go's < on strings: lexicographic on bytes.
RECURSIVE StrLess(_, _)
StrLess(s, t) ==
    IF t = <<>> THEN FALSE
    ELSE IF s = <<>> THEN TRUE
    ELSE IF Head(s) < Head(t) THEN TRUE
    ELSE IF Head(s) > Head(t) THEN FALSE
    ELSE StrLess(Tail(s), Tail(t))

Min(S) == CHOOSE x \in S : \A y \in S : x <= y

\* Nodes reachable from n through left/right links.
RECURSIVE ReachFrom(_, _, _)
ReachFrom(h, n, seen) ==
    IF n = NIL \/ n \in seen THEN seen
    ELSE ReachFrom(h, h.right[n], ReachFrom(h, h.left[n], seen \cup {n}))

Reach(h) == ReachFrom(h, Root, {})

\* Garbage collection: cells and maps no longer reachable from the root are
\* returned to the allocator (unobservable to the program).
GC(h) ==
    LET live == Reach(h)
        liveMaps == {h.uuids[n] : n \in live} \ {NIL}
    IN [h EXCEPT !.topic = [n \in Nodes |-> IF n \in live THEN h.topic[n] ELSE <<>>],
                 !.uuids = [n \in Nodes |-> IF n \in live THEN h.uuids[n] ELSE NIL],
                 !.left = [n \in Nodes |-> IF n \in live THEN h.left[n] ELSE NIL],
                 !.right = [n \in Nodes |-> IF n \in live THEN h.right[n] ELSE NIL],
                 !.maps = [m \in MapIds |-> IF m \in liveMaps THEN h.maps[m] ELSE {}]]

FreeNodes(h) == Nodes \ Reach(h)
FreeMaps(h) == MapIds \ {h.uuids[n] : n \in Reach(h)}

\* NewLeaf storing the new topic's uuid in a map already in use (the first
\* map of the heap) instead of a fresh one.
NewLeafSharedMap(h, n, m, uuid, t) ==
    [h EXCEPT !.topic[n] = t, !.uuids[n] = Min(MapIds), !.left[n] = NIL, !.right[n] = NIL,
              !.maps[Min(MapIds)] = @ \cup {uuid}]

\* &BST{topic: topic, uuids: map[string]struct{}{uuid: {}}} stored in a cell
\* n and a map m fresh from the allocator.
NewLeaf(h, n, m, uuid, t) ==
    [h EXCEPT !.topic[n] = t, !.uuids[n] = m, !.left[n] = NIL, !.right[n] = NIL,
              !.maps[m] = {uuid}]

\* InsertFrom without its test for an equal topic: a call never merges into
\* the node that holds its topic, it descends and hangs a new leaf.
RECURSIVE InsertFromNoMerge(_, _, _, _)
InsertFromNoMerge(h, curr, uuid, t) ==
    IF StrLess(h.topic[curr], t)
    THEN IF h.left[curr] = NIL
         THEN IF FreeNodes(h) = {} THEN h
              ELSE LET n == Min(FreeNodes(h))
                       m == Min(FreeMaps(h))
                   IN [NewLeaf(h, n, m, uuid, t) EXCEPT !.left[curr] = n]
         ELSE InsertFromNoMerge(h, h.left[curr], uuid, t)
    ELSE IF h.right[curr] = NIL
         THEN IF FreeNodes(h) = {} THEN h
              ELSE LET n == Min(FreeNodes(h))
                       m == Min(FreeMaps(h))
                   IN [NewLeaf(h, n, m, uuid, t) EXCEPT !.right[curr] = n]
         ELSE InsertFromNoMerge(h, h.right[curr], uuid, t)

\* BST.Insert: the loop from curr.
RECURSIVE InsertFrom(_, _, _, _)
InsertFrom(h, curr, uuid, t) ==
    IF h.topic[curr] = t
    THEN IF h.uuids[curr] = NIL
         THEN [h EXCEPT !.fault = TRUE]           \* assignment to entry in nil map
         ELSE [h EXCEPT !.maps[h.uuids[curr]] = @ \cup {uuid}]
    ELSE IF StrLess(h.topic[curr], t)
    THEN IF h.left[curr] = NIL
         THEN IF FreeNodes(h) = {} THEN h          \* heap of the model exhausted
              ELSE LET n == Min(FreeNodes(h))
                       m == Min(FreeMaps(h))
                   IN [NewLeaf(h, n, m, uuid, t) EXCEPT !.left[curr] = n]
         ELSE InsertFrom(h, h.left[curr], uuid, t)
    ELSE IF h.right[curr] = NIL
         THEN IF FreeNodes(h) = {} THEN h          \* heap of the model exhausted
              ELSE LET n == Min(FreeNodes(h))
                       m == Min(FreeMaps(h))
                   IN [NewLeaf(h, n, m, uuid, t) EXCEPT !.right[curr] = n]
         ELSE InsertFrom(h, h.right[curr], uuid, t)

InsertOp(h, uuid, t) == InsertFrom(h, Root, uuid, t)

\* GetFrom descending the way removeHelper does (topic < curr.topic goes left).
RECURSIVE GetFromMirrored(_, _, _)
GetFromMirrored(h, curr, t) ==
    IF curr = NIL THEN NIL
    ELSE IF h.topic[curr] = t THEN curr
    ELSE IF StrLess(t, h.topic[curr]) THEN GetFromMirrored(h, h.left[curr], t)
    ELSE GetFromMirrored(h, h.right[curr], t)

\* BST.Get: the node the lookup loop stops at, NIL when it runs off the tree.
RECURSIVE GetFrom(_, _, _)
GetFrom(h, curr, t) ==
    IF curr = NIL THEN NIL
    ELSE IF h.topic[curr] = t THEN curr
    ELSE IF StrLess(h.topic[curr], t) THEN GetFrom(h, h.left[curr], t)
    ELSE GetFrom(h, h.right[curr], t)

GetNode(h, t) == GetFrom(h, Root, t)

\* The map reference Get returns (NIL is Go's nil map, the not-found result).
GetRef(h, t) == IF GetNode(h, t) = NIL THEN NIL ELSE h.uuids[GetNode(h, t)]

Found(h, t) == GetRef(h, t) # NIL

\* The members of the map Get returns (a nil map has none).
Get(h, t) == IF GetRef(h, t) = NIL THEN {} ELSE h.maps[GetRef(h, t)]

\* len(curr.uuids) and membership, both defined on a nil map.
MapOf(h, n) == IF h.uuids[n] = NIL THEN {} ELSE h.maps[h.uuids[n]]

\* BST.traverseForMinString: the node whose topic and map are returned.
RECURSIVE traverseForMinString(_, _)
traverseForMinString(h, b) ==
    IF h.left[b] = NIL THEN b ELSE traverseForMinString(h, h.left[b])

\* RemoveRoot with curr.left = curr.left where the code has curr.left.left
\* (and the same slip on the right): the child stays linked while the root
\* takes over its contents and its other child.
RemoveRootKeepsChild(h, curr) ==
    IF h.left[curr] # NIL
    THEN LET c == h.left[curr]
         IN [h EXCEPT !.topic[curr] = h.topic[c], !.uuids[curr] = h.uuids[c],
                      !.right[curr] = h.right[c]]
    ELSE IF h.right[curr] # NIL
    THEN LET c == h.right[curr]
         IN [h EXCEPT !.topic[curr] = h.topic[c], !.uuids[curr] = h.uuids[c],
                      !.left[curr] = h.left[c]]
    ELSE h

\* curr has at most one child and no parent: the root takes over its child.
RemoveRoot(h, curr) ==
    IF h.left[curr] # NIL
    THEN LET c == h.left[curr]
         IN [h EXCEPT !.topic[curr] = h.topic[c], !.uuids[curr] = h.uuids[c],
                      !.right[curr] = h.right[c], !.left[curr] = h.left[c]]
    ELSE IF h.right[curr] # NIL
    THEN LET c == h.right[curr]
         IN [h EXCEPT !.topic[curr] = h.topic[c], !.uuids[curr] = h.uuids[c],
                      !.left[curr] = h.left[c], !.right[curr] = h.right[c]]
    ELSE h

\* curr has at most one child and a parent: the parent's link skips curr.
Relink(h, curr, parent) ==
    LET child == IF h.left[curr] # NIL THEN h.left[curr] ELSE h.right[curr]
    IN IF h.left[parent] = curr THEN [h EXCEPT !.left[parent] = child]
       ELSE IF h.right[parent] = curr THEN [h EXCEPT !.right[parent] = child]
       ELSE h

\* removeHelper deleting a present uuid whatever the size of the set
\* (len(curr.uuids) >= 1): the last member goes and the node stays.
RECURSIVE removeHelperDeleteLast(_, _, _, _, _)
removeHelperDeleteLast(h, curr, uuid, t, parent) ==
    IF curr = NIL THEN h
    ELSE IF StrLess(t, h.topic[curr])
    THEN removeHelperDeleteLast(h, h.left[curr], uuid, t, curr)
    ELSE IF StrLess(h.topic[curr], t)
    THEN removeHelperDeleteLast(h, h.right[curr], uuid, t, curr)
    ELSE IF Cardinality(MapOf(h, curr)) >= 1 /\ uuid \in MapOf(h, curr)
    THEN [h EXCEPT !.maps[h.uuids[curr]] = @ \ {uuid}]
    ELSE IF h.left[curr] # NIL /\ h.right[curr] # NIL
    THEN LET s == traverseForMinString(h, h.right[curr])
             h1 == [h EXCEPT !.topic[curr] = h.topic[s], !.uuids[curr] = h.uuids[s]]
         IN removeHelperDeleteLast(h1, h1.right[curr], h1.topic[curr], uuid, curr)
    ELSE IF parent = NIL THEN RemoveRoot(h, curr)
    ELSE Relink(h, curr, parent)

\* BST.removeHelper: the loop from curr with the parent tracked so far.
RECURSIVE removeHelper(_, _, _, _, _)
removeHelper(h, curr, uuid, t, parent) ==
    IF curr = NIL THEN h
    ELSE IF StrLess(t, h.topic[curr]) THEN removeHelper(h, h.left[curr], uuid, t, curr)
    ELSE IF StrLess(h.topic[curr], t) THEN removeHelper(h, h.right[curr], uuid, t, curr)
    ELSE IF Cardinality(MapOf(h, curr)) > 1 /\ uuid \in MapOf(h, curr)
    THEN [h EXCEPT !.maps[h.uuids[curr]] = @ \ {uuid}]
    ELSE IF h.left[curr] # NIL /\ h.right[curr] # NIL
    THEN LET s == traverseForMinString(h, h.right[curr])
             h1 == [h EXCEPT !.topic[curr] = h.topic[s], !.uuids[curr] = h.uuids[s]]
         IN removeHelper(h1, h1.right[curr], h1.topic[curr], uuid, curr)
    ELSE IF parent = NIL THEN RemoveRoot(h, curr)
    ELSE Relink(h, curr, parent)

\* BST.Remove
RemoveOp(h, uuid, t) == removeHelper(h, Root, uuid, t, NIL)

\* BST.removeHelper, the search alone: the node the loop stops at (NIL when it
\* runs off the tree).
RECURSIVE removeWalk(_, _, _)
removeWalk(h, curr, t) ==
    IF curr = NIL THEN NIL
    ELSE IF StrLess(t, h.topic[curr]) THEN removeWalk(h, h.left[curr], t)
    ELSE IF StrLess(h.topic[curr], t) THEN removeWalk(h, h.right[curr], t)
    ELSE curr

\* The node Remove(uuid, t) deletes structurally (NIL when it finds none or
\* only deletes the uuid from the set).
RemoveTarget(h, uuid, t) ==
    LET n == removeWalk(h, Root, t)
    IN IF n = NIL THEN NIL
       ELSE IF Cardinality(MapOf(h, n)) > 1 /\ uuid \in MapOf(h, n) THEN NIL
       ELSE n

\* ---- the state machine ----------------------------------------------------
\* op and pre record the last call and the heap it was made on; abs is the
\* abstract index (topic -> set of uuids) the same calls build.
NoOp == [kind |-> "New", uuid |-> <<>>, topic |-> <<>>]

\* NewBST: one zero cell, no map.
EmptyHeap ==
    [topic |-> [n \in Nodes |-> <<>>], uuids |-> [n \in Nodes |-> NIL],
     left |-> [n \in Nodes |-> NIL], right |-> [n \in Nodes |-> NIL],
     maps |-> [m \in MapIds |-> {}], fault |-> FALSE]

SetHeap(h) ==
    /\ topic' = h.topic
    /\ uuids' = h.uuids
    /\ left' = h.left
    /\ right' = h.right
    /\ maps' = h.maps
    /\ fault' = h.fault

Init ==
    /\ topic = EmptyHeap.topic
    /\ uuids = EmptyHeap.uuids
    /\ left = EmptyHeap.left
    /\ right = EmptyHeap.right
    /\ maps = EmptyHeap.maps
    /\ fault = FALSE
    /\ op = NoOp
    /\ pre = EmptyHeap
    /\ abs = [t \in Topics |-> {}]

\* The call fits the model's heap: it finds its topic or a free cell is left.
InsertFits(h, t) == GetNode(h, t) # NIL \/ FreeNodes(h) # {}

\* A call of Insert on the live program.
InsertCall(uuid, t) ==
    /\ ~fault
    /\ InsertFits(H, t)
    /\ SetHeap(GC(InsertOp(H, uuid, t)))

\* A call of Remove on the live program.
RemoveCall(uuid, t) ==
    /\ ~fault
    /\ SetHeap(GC(RemoveOp(H, uuid, t)))

Insert(uuid, t) ==
    /\ InsertCall(uuid, t)
    /\ op' = [kind |-> "Insert", uuid |-> uuid, topic |-> t]
    /\ pre' = H
    /\ UNCHANGED abs

Remove(uuid, t) ==
    /\ RemoveCall(uuid, t)
    /\ op' = [kind |-> "Remove", uuid |-> uuid, topic |-> t]
    /\ pre' = H
    /\ UNCHANGED abs

\* A call of Get on the live program: the loop assigns to its local curr only.
GetCall(t) ==
    /\ ~fault
    /\ UNCHANGED <<topic, uuids, left, right, maps, fault>>
    /\ op' = [kind |-> "Get", uuid |-> <<>>, topic |-> t]
    /\ pre' = H
    /\ UNCHANGED abs

Next ==
    \/ \E uuid \in Uuids, t \in Topics : Insert(uuid, t)
    \/ \E uuid \in Uuids, t \in Topics : Remove(uuid, t)
    \/ \E t \in Topics : GetCall(t)

Spec == Init /\ [][Next]_vars

\* The same calls, with the abstract index kept beside the tree: Insert is
\* set-add (when the call returns), Remove is set-delete.
InsertAbs(uuid, t) ==
    /\ InsertCall(uuid, t)
    /\ abs' = IF fault' THEN abs ELSE [abs EXCEPT ![t] = @ \cup {uuid}]
    /\ UNCHANGED <<op, pre>>

RemoveAbs(uuid, t) ==
    /\ RemoveCall(uuid, t)
    /\ abs' = [abs EXCEPT ![t] = @ \ {uuid}]
    /\ UNCHANGED <<op, pre>>

NextAbs ==
    \/ \E uuid \in Uuids, t \in Topics : InsertAbs(uuid, t)
    \/ \E uuid \in Uuids, t \in Topics : RemoveAbs(uuid, t)

SpecAbs == Init /\ [][NextAbs]_vars

\* ---- vocabulary of the properties -------------------------------------------
\* The cells that are nodes of the index: reachable and holding a map (the
\* zero cell NewBST returns holds none until a node's contents move into it).
TopicNodes(h) == {n \in Reach(h) : h.uuids[n] # NIL}

\* The topics held by some node of the tree.
HeldTopics(h) == {h.topic[n] : n \in TopicNodes(h)}

\* The nodes of the subtree hanging from link n.
Subtree(h, n) == ReachFrom(h, n, {})

\* Greater topics to the left of every node and lesser ones to the right ...
OrderedGreaterLeft(h) ==
    \A n \in Reach(h) :
        /\ \A k \in Subtree(h, h.left[n]) : StrLess(h.topic[n], h.topic[k])
        /\ \A k \in Subtree(h, h.right[n]) : StrLess(h.topic[k], h.topic[n])

\* ... or the other way round, at every node.
OrderedLesserLeft(h) ==
    \A n \in Reach(h) :
        /\ \A k \in Subtree(h, h.left[n]) : StrLess(h.topic[k], h.topic[n])
        /\ \A k \in Subtree(h, h.right[n]) : StrLess(h.topic[n], h.topic[k])

\* What a caller of Get can tell of every topic: found or not, and the members.
View(h) == [t \in Topics |-> <<Found(h, t), Get(h, t)>>]

IsInsert == op.kind = "Insert"
IsRemove == op.kind = "Remove"

\* ---- C1 ---------------------------------------------------------------------
\* C1: after any sequence of Insert and Remove calls on a fresh index, Get(T)
\* is, for every topic T, exactly the set the abstract index holds for T
\* (Insert as set-add, Remove as set-delete), and not-found when that set is
\* empty.
C1_MembershipCorrect ==
    ~fault => \A t \in Topics :
                  /\ Get(H, t) = abs[t]
                  /\ (abs[t] = {} => ~Found(H, t))

\* ---- C2 ---------------------------------------------------------------------
\* C2: after Remove(id, T) called with id a member of Get(T), Get(T) is the old
\* set without id, and not-found if id was its only member.
C2_RemovePostcondition ==
    (IsRemove /\ op.uuid \in Get(pre, op.topic)) =>
        /\ Get(H, op.topic) = Get(pre, op.topic) \ {op.uuid}
        /\ (Get(pre, op.topic) = {op.uuid} => ~Found(H, op.topic))

\* ---- C3 ---------------------------------------------------------------------
\* C3: in every reachable state the topics of one child subtree of every node
\* are strictly less than the node's topic and those of the other strictly
\* greater, the same side holding the lesser topics at every node.
C3_OrderingInvariant == OrderedGreaterLeft(H) \/ OrderedLesserLeft(H)

\* ---- C4 ---------------------------------------------------------------------
\* C4: after Remove(id, T) called when T's subscriber set is exactly {id},
\* Get(T) reports not-found and no node of the tree holds T.
C4_TombstoneFree ==
    (IsRemove /\ Found(pre, op.topic) /\ Get(pre, op.topic) = {op.uuid}) =>
        /\ ~Found(H, op.topic)
        /\ op.topic \notin HeldTopics(H)

\* ---- C5 ---------------------------------------------------------------------
\* C5: in every reachable state each topic is held by at most one node
\* reachable from the root.
C5_NoDuplicateTopics ==
    \A n \in Reach(H) : \A k \in Reach(H) : n # k => topic[n] # topic[k]

\* ---- C6 ---------------------------------------------------------------------
\* C6: Insert(id, T) on any reachable index, the fresh one and the empty
\* string included, completes without a panic, and afterwards a node holds T
\* and id is a member of Get(T).
C6_InsertNeverFails ==
    IsInsert =>
        /\ ~fault
        /\ op.topic \in HeldTopics(H)
        /\ op.uuid \in Get(H, op.topic)

\* ---- C7 ---------------------------------------------------------------------
\* C7: Remove(id, T) called when no node holds T or id is not a member of T's
\* set leaves the index unchanged: the same topics are held and Get returns the
\* same for every topic.
C7_NoOpRemoval ==
    (IsRemove /\ op.uuid \notin Get(pre, op.topic)) =>
        /\ ~fault
        /\ HeldTopics(H) = HeldTopics(pre)
        /\ View(H) = View(pre)

\* ---- C8 ---------------------------------------------------------------------
\* C8: Remove(id, T) called when T's set has more than one member keeps T's
\* node, adds, removes and relinks no node, changes no node's topic, leaves the
\* sets of all other topics alone and makes T's set the old set minus id.
C8_MembershipOnlyRemoval ==
    (IsRemove /\ Cardinality(Get(pre, op.topic)) > 1) =>
        /\ Found(H, op.topic)
        /\ topic = pre.topic /\ left = pre.left /\ right = pre.right
        /\ \A t \in Topics \ {op.topic} : View(H)[t] = View(pre)[t]
        /\ Get(H, op.topic) = Get(pre, op.topic) \ {op.uuid}

\* ---- C9 ---------------------------------------------------------------------
\* C9: Remove(id, T) leaves Get(T') as it was for every topic T' other than T,
\* also when T's node is deleted structurally and when id is a topic's name.
C9_RemoveFrame ==
    IsRemove => \A t \in Topics \ {op.topic} : View(H)[t] = View(pre)[t]

\* ---- C10 --------------------------------------------------------------------
\* C10: a second Insert(id, T) right after Insert(id, T) changes nothing: the
\* cells, their links and topics, and every map stay as the first call left
\* them.
C10_InsertIdempotent ==
    IsInsert => GC(InsertOp(H, op.uuid, op.topic)) = H

\* The second of two equal Insert calls has run on a live index.
C10_Witness ==
    /\ IsInsert /\ ~fault
    /\ pre = H
    /\ op.uuid \in Get(H, op.topic)

\* ---- C11 --------------------------------------------------------------------
IsGet == op.kind = "Get"

\* Get's answer for t is the map of every node that holds t, and not-found
\* exactly when no node holds t.
GetExact(h, t) ==
    /\ Found(h, t) <=> t \in HeldTopics(h)
    /\ \A n \in TopicNodes(h) : h.topic[n] = t => GetRef(h, t) = h.uuids[n]

\* C11: Get(T) changes nothing in the index, returns the subscriber set of a
\* node holding T when a node reachable from the root holds T, and not-found
\* if and only if none does; on a fresh index it returns not-found for every
\* topic.
C11_GetReadOnlyExact ==
    /\ \A t \in Topics : GetExact(H, t)
    /\ IsGet => H = pre
    /\ H = EmptyHeap => \A t \in Topics : ~Found(H, t)

\* Get has run for a topic held by a node that is not the root.
C11_Witness ==
    /\ IsGet
    /\ Found(H, op.topic)
    /\ GetNode(H, op.topic) # Root
    /\ Cardinality(Reach(H)) = MaxNodes

Holders(h, t) == {n \in TopicNodes(h) : h.topic[n] = t}

\* The last call was a Remove that deleted a node with both children.
TwoChildrenDeletion ==
    /\ IsRemove
    /\ RemoveTarget(pre, op.uuid, op.topic) # NIL
    /\ pre.left[RemoveTarget(pre, op.uuid, op.topic)] # NIL
    /\ pre.right[RemoveTarget(pre, op.uuid, op.topic)] # NIL

\* C13: after Remove has structurally deleted a node N with both children, no
\* node holds N's old topic, N holds the topic and the set of the node
\* traverseForMinString picked in its right subtree, exactly one node holds
\* that topic, every other topic keeps its set and the ordering invariant
\* holds.
C13_TwoChildrenDeletion ==
    TwoChildrenDeletion =>
        LET n == RemoveTarget(pre, op.uuid, op.topic)
            s == traverseForMinString(pre, pre.right[n])
        IN /\ Holders(H, pre.topic[n]) = {}
           /\ topic[n] = pre.topic[s]
           /\ MapOf(H, n) = MapOf(pre, s)
           /\ Cardinality(Holders(H, pre.topic[s])) = 1
           /\ \A t \in Topics \ {pre.topic[n]} : View(H)[t] = View(pre)[t]
           /\ C3_OrderingInvariant

\* ---- C14 --------------------------------------------------------------------
\* C14: in every reachable state and for every topic T the search walk of
\* Remove(_, T) ends at the node the search walk of Get(T) ends at (the node
\* holding T when Get finds one, no node otherwise).
C14_UniformSearch ==
    \A t \in Topics : removeWalk(H, Root, t) = GetNode(H, t)

\* ---- C15 --------------------------------------------------------------------
\* The last call was a Remove that deleted the root, which had at most one
\* child.
RootDeletion ==
    /\ IsRemove
    /\ RemoveTarget(pre, op.uuid, op.topic) = Root
    /\ (pre.left[Root] = NIL \/ pre.right[Root] = NIL)

\* C15: after Remove has structurally deleted a root with exactly one child
\* the root holds that child's topic, set and children, and every topic but
\* the deleted one is found with its set unchanged; after it has deleted a
\* root without children the index is empty: Get finds no topic.
C15_RootDeletion ==
    RootDeletion =>
        LET c == IF pre.left[Root] # NIL THEN pre.left[Root] ELSE pre.right[Root]
        IN IF c # NIL
           THEN /\ topic[Root] = pre.topic[c]
                /\ uuids[Root] = pre.uuids[c]
                /\ MapOf(H, Root) = MapOf(pre, c)
                /\ left[Root] = pre.left[c]
                /\ right[Root] = pre.right[c]
                /\ \A t \in Topics \ {op.topic} : View(H)[t] = View(pre)[t]
           ELSE \A t \in Topics : ~Found(H, t)

\* ---- C16 --------------------------------------------------------------------
\* The links that point at cell k: pairs of a reachable parent and a side.
LinksTo(h, k) ==
    {<<n, "left">> : n \in {x \in Reach(h) : h.left[x] = k}}
        \cup {<<n, "right">> : n \in {x \in Reach(h) : h.right[x] = k}}

\* C16: in every reachable state the cells reachable from the root form a
\* tree: no cell is reachable from itself through left/right links, the root
\* is nobody's child, and every other cell is the child of one node on one
\* side.
C16_ExclusiveOwnership ==
    \A k \in Reach(H) :
        /\ k \notin Subtree(H, left[k]) \cup Subtree(H, right[k])
        /\ Cardinality(LinksTo(H, k)) = IF k = Root THEN 0 ELSE 1

\* Remove has relinked a tree of MaxNodes cells and cells are still linked
\* below the root.
C16_Witness ==
    /\ IsRemove
    /\ Cardinality(Reach(pre)) = MaxNodes
    /\ <<left, right>> # <<pre.left, pre.right>>
    /\ Cardinality(Reach(H)) > 1

\* ---- C17 --------------------------------------------------------------------
\* Get's loop with the topic greater than curr.topic test failing to advance
\* (the continue is taken with curr unchanged).
GetNextStuck(h, curr, t) ==
    IF StrLess(h.topic[curr], t) THEN curr ELSE h.right[curr]

\* BST.Get: the link the loop follows from a node whose topic is not t.
GetNext(h, curr, t) ==
    IF StrLess(h.topic[curr], t) THEN h.left[curr] ELSE h.right[curr]

\* BST.Insert: the link the loop follows from a node whose topic is not t.
InsertNext(h, curr, t) ==
    IF StrLess(h.topic[curr], t) THEN h.left[curr] ELSE h.right[curr]

\* BST.removeHelper: the link the loop follows from a node whose topic is not t.
removeNext(h, curr, t) ==
    IF StrLess(t, h.topic[curr]) THEN h.left[curr] ELSE h.right[curr]

\* The walk of Get from curr ends without coming to a node a second time.
RECURSIVE GetHalts(_, _, _, _)
GetHalts(h, curr, t, seen) ==
    IF curr = NIL THEN TRUE
    ELSE IF curr \in seen THEN FALSE
    ELSE IF h.topic[curr] = t THEN TRUE
    ELSE GetHalts(h, GetNext(h, curr, t), t, seen \cup {curr})

\* The walk of Insert from curr ends (at the topic or at an empty link)
\* without coming to a node a second time.
RECURSIVE InsertHalts(_, _, _, _)
InsertHalts(h, curr, t, seen) ==
    IF curr = NIL THEN TRUE
    ELSE IF curr \in seen THEN FALSE
    ELSE IF h.topic[curr] = t THEN TRUE
    ELSE InsertHalts(h, InsertNext(h, curr, t), t, seen \cup {curr})

\* The descent of traverseForMinString from b ends without a repeat.
RECURSIVE MinHalts(_, _, _)
MinHalts(h, b, seen) ==
    IF b \in seen THEN FALSE
    ELSE IF h.left[b] = NIL THEN TRUE
    ELSE MinHalts(h, h.left[b], seen \cup {b})

\* The walk of removeHelper from curr ends without a repeat, and so does the
\* successor descent and every nested call (at most depth of them).
RECURSIVE RemoveHalts(_, _, _, _, _, _)
RemoveHalts(h, curr, uuid, t, seen, depth) ==
    IF curr = NIL THEN TRUE
    ELSE IF curr \in seen THEN FALSE
    ELSE IF h.topic[curr] # t
    THEN RemoveHalts(h, removeNext(h, curr, t), uuid, t, seen \cup {curr}, depth)
    ELSE IF Cardinality(MapOf(h, curr)) > 1 /\ uuid \in MapOf(h, curr) THEN TRUE
    ELSE IF h.left[curr] # NIL /\ h.right[curr] # NIL
    THEN /\ MinHalts(h, h.right[curr], {})
         /\ depth > 0
         /\ LET s == traverseForMinString(h, h.right[curr])
                h1 == [h EXCEPT !.topic[curr] = h.topic[s], !.uuids[curr] = h.uuids[s]]
            IN RemoveHalts(h1, h1.right[curr], h1.topic[curr], uuid, {}, depth - 1)
    ELSE TRUE

\* C17: on every reachable index every call of Insert, Get and Remove, the
\* nested successor deletion included, terminates, no search walk visiting a
\* node more than once.
C17_Termination ==
    \A t \in Topics :
        /\ GetHalts(H, Root, t, {})
        /\ InsertHalts(H, Root, t, {})
        /\ \A uuid \in Uuids : RemoveHalts(H, Root, uuid, t, {}, Cardinality(Nodes))

\* Remove has run its two-children case, successor descent and nested call
\* included, and returned.
C17_Witness ==
    /\ TwoChildrenDeletion
    /\ ~fault
    /\ Cardinality(Reach(H)) > 1

\* ---- C18 --------------------------------------------------------------------
\* No map is the uuids of two nodes that hold different topics.
NoCrossTopicSharing(h) ==
    \A n \in TopicNodes(h) : \A k \in TopicNodes(h) :
        h.uuids[n] = h.uuids[k] => h.topic[n] = h.topic[k]

\* The links of h that are not links of g: pairs of a cell and a side.
NewLinks(g, h) ==
    {<<n, "left">> : n \in {x \in Nodes : h.left[x] # g.left[x]}}
        \cup {<<n, "right">> : n \in {x \in Nodes : h.right[x] # g.right[x]}}

\* C18: Insert(id, T) leaves Get(T') as it was for every topic T' other than
\* T, removes no node and changes no node's topic, and changes the links only
\* by hanging at most one new leaf on an empty link; in every reachable state,
\* those where Remove has copied a set into another node included, no map is
\* shared by nodes holding different topics.
C18_InsertFrame ==
    /\ NoCrossTopicSharing(H)
    /\ IsInsert =>
        /\ \A t \in Topics \ {op.topic} : View(H)[t] = View(pre)[t]
        /\ Reach(pre) \subseteq Reach(H)
        /\ \A n \in Reach(pre) : topic[n] = pre.topic[n] /\ uuids[n] = pre.uuids[n]
        /\ Cardinality(Reach(H) \ Reach(pre)) <= 1
        /\ Cardinality(NewLinks(pre, H)) = Cardinality(Reach(H) \ Reach(pre))
        /\ \A l \in NewLinks(pre, H) :
              LET n == l[1]
                  was == IF l[2] = "left" THEN pre.left[n] ELSE pre.right[n]
                  now == IF l[2] = "left" THEN left[n] ELSE right[n]
              IN /\ n \in Reach(pre) /\ was = NIL
                 /\ now \in Reach(H) \ Reach(pre)
                 /\ left[now] = NIL /\ right[now] = NIL

\* Insert has hung a new leaf in a tree where two nodes share one map (left by
\* the two-children deletion of Remove).
C18_Witness ==
    /\ IsInsert /\ ~fault
    /\ Reach(H) # Reach(pre)
    /\ \E n \in TopicNodes(pre) : \E k \in TopicNodes(pre) :
           n # k /\ pre.uuids[n] = pre.uuids[k]

====
